---- MODULE Spec2Model ----
(***************************************************************************)
(* The research pipeline of graph.py: search -> filter -> synthesize ->    *)
(* validate, with the conditional edge validate -> synthesize | END.       *)
(* The language model and the search providers are the environment: their  *)
(* answers are drawn from bounded sets.                                    *)
(***************************************************************************)
EXTENDS Integers, Sequences, FiniteSets, TLC

\* ------------------------------------------------------------------ bounds
\* hits a provider returns at most (the code asks for up to 5 / 3 / 5)
MaxHits == 1
\* longest JSON array the model answers the filter prompt with
MaxReply == 2
\* largest elapsed time (seconds) read by validate_node
MaxElapsed == 1
\* super-steps the graph runtime executes before graph.invoke gives up with
\* a recursion error (run_research passes no config, the library default
\* applies; the default is larger, the behaviour is the same)
RecursionLimit == 9
\* lines of the longest answer the fence stripping is applied to on its own
MaxLines == 4

\* --------------------------------------------------------------- constants
MAX_VALIDATION_RETRIES == 2

\* stop_after_attempt of the retry decorators of tools.py: the three search
\* functions, and scrape_url
SearchAttempts == 3
ScrapeAttempts == 2

NoneVal == [type |-> "None"]

\* no function of tools.py has been called on its own
NoCall == [fn |-> "none"]

\* ---- the state of a run: ResearchState, the position of the graph, and
\* the history of the run
VARIABLES
    pc,               \* the node the graph executes next, "end", or "raised"
    steps,            \* super-steps executed by graph.invoke
    query,
    search_results,
    filtered_results,
    synthesis_raw,
    validated_output,
    tools_used,
    sources_found,
    sources_used,
    retry_count,
    error,
    tool_errors,      \* tool_errors of the last run_all_searches
    llm_script,       \* the answers the model gives to the first synthesis calls
    llm_content,      \* the last answer of the model to a synthesis prompt
    filter_reply,     \* the kind of answer the model gave to the filter prompt
    search_calls,     \* executions of search_node
    filter_calls,     \* executions of filter_node
    synth_calls,      \* executions of synthesize_node
    llm_synth_calls,  \* synthesis prompts sent to the model
    call,             \* the last call of a function of tools.py made on its own
    queries,          \* tracker.queries of main
    main              \* where main is: in the tracked block, past it, or crashed

state == << query, search_results, filtered_results, synthesis_raw, validated_output,
            tools_used, sources_found, sources_used, retry_count, error >>

history == << tool_errors, llm_script, llm_content, filter_reply, search_calls, filter_calls, synth_calls,
              llm_synth_calls, call, queries, main >>

vars == << pc, steps, query, search_results, filtered_results, synthesis_raw,
           validated_output, tools_used, sources_found, sources_used, retry_count,
           error, tool_errors, llm_script, llm_content, filter_reply, search_calls, filter_calls, synth_calls,
           llm_synth_calls, call, queries, main >>

\* ------------------------------------------------------------ tools.py ---
Providers == <<"duckduckgo", "wikipedia", "arxiv">>

\* what one provider call ends with, after its own retries: an exception
\* ("fail") or a number of hits
ProviderOutcomes == {[failed |-> TRUE, hits |-> 0]}
                       \cup {[failed |-> FALSE, hits |-> h] : h \in 0..MaxHits}

Hit(src, i) == [source |-> src, n |-> i]

\* a search_duckduckgo without the placeholder
search_duckduckgo_plain(hits) == [i \in 1..hits |-> Hit("duckduckgo", i)]

\* search_duckduckgo: the hits, or one placeholder result (n = 0) when the
\* search has none
search_duckduckgo(hits) ==
    IF hits = 0 THEN << Hit("duckduckgo", 0) >>
    ELSE [i \in 1..hits |-> Hit("duckduckgo", i)]

\* search_wikipedia: [] when the wrapper reports nothing, else the pages
search_wikipedia(hits) == [i \in 1..hits |-> Hit("wikipedia", i)]

\* search_arxiv: the papers found, possibly none
search_arxiv(hits) == [i \in 1..hits |-> Hit("arxiv", i)]

\* a run_all_searches that gives up at the first provider that raised
run_all_searches_abort(ddg, wiki, arx) ==
    IF ddg.failed THEN << >>
    ELSE IF wiki.failed THEN search_duckduckgo(ddg.hits)
    ELSE IF arx.failed THEN search_duckduckgo(ddg.hits) \o search_wikipedia(wiki.hits)
    ELSE search_duckduckgo(ddg.hits) \o search_wikipedia(wiki.hits) \o search_arxiv(arx.hits)

\* run_all_searches: each provider in its own try block, results
\* concatenated in invocation order, a failed provider contributes nothing
run_all_searches(ddg, wiki, arx) ==
    LET ddg_results   == IF ddg.failed THEN << >> ELSE search_duckduckgo(ddg.hits)
        wiki_results  == IF wiki.failed THEN << >> ELSE search_wikipedia(wiki.hits)
        arxiv_results == IF arx.failed THEN << >> ELSE search_arxiv(arx.hits)
    IN  ddg_results \o wiki_results \o arxiv_results

\* tool_errors of run_all_searches: one entry per provider that raised
ToolErrors(ddg, wiki, arx) ==
    (IF ddg.failed THEN << "duckduckgo" >> ELSE << >>)
      \o (IF wiki.failed THEN << "wikipedia" >> ELSE << >>)
      \o (IF arx.failed THEN << "arxiv" >> ELSE << >>)

\* ------------------------------------------------------------ graph.py ---
\* the tools that were invoked, whatever they returned
SourcesOf_invoked(results) == {Providers[p] : p \in 1..Len(Providers)}

SourcesOf(results) == {results[i].source : i \in 1..Len(results)}

\* tools_used is list(set of sources): each source once, in an order the
\* language does not fix; the model keeps the set

\* JSON values the model may answer the filter prompt with.  Array items:
\* int v, float v/2, bool v (0/1), str, null.
Item(t, v) == [t |-> t, v |-> v]

ReplyItems(n) ==
    {Item("int", k) : k \in -1..(n + 1)}
      \cup {Item("float", 1), Item("float", 2)}
      \cup {Item("bool", 1), Item("str", 0), Item("null", 0)}

ReplyArrays(n) ==
    UNION {[1..k -> ReplyItems(n)] : k \in 0..MaxReply}

FilterReplies(n) ==
    {[type |-> "malformed", items |-> << >>],
     [type |-> "null", items |-> << >>],
     [type |-> "number", items |-> << >>],
     [type |-> "object", items |-> << >>],
     [type |-> "object", items |-> << Item("str", 0) >>],
     [type |-> "string", items |-> << >>],
     [type |-> "string", items |-> << Item("str", 0) >>]}
      \cup {[type |-> "array", items |-> a] : a \in ReplyArrays(n)}

\* whether a JSON value is an array of integers (a JSON true is no integer)
IsIntArray(reply) ==
    /\ reply.type = "array"
    /\ \A k \in 1..Len(reply.items) : reply.items[k].t = "int"

\* the kind of answer, as the history of a run keeps it
ReplyKind(reply) == IF IsIntArray(reply) THEN "array of int" ELSE reply.type

NoReply == "not asked"

\* 1 <= i <= len(results): numbers (int, float, bool) compare, anything else
\* is a TypeError
Comparable(i) == i.t \in {"int", "float", "bool"}

InRange(i, n) ==
    IF i.t = "float" THEN 2 <= i.v /\ i.v <= 2 * n
    ELSE 1 <= i.v /\ i.v <= n

\* a comprehension that collects the kept results back to front
RECURSIVE KeepIndices_reversed(_, _)
KeepIndices_reversed(results, items) ==
    IF items = << >> THEN [raised |-> FALSE, kept |-> << >>]
    ELSE LET i    == Head(items)
             rest == KeepIndices_reversed(results, Tail(items))
         IN  IF ~Comparable(i) THEN [raised |-> TRUE, kept |-> << >>]
             ELSE IF ~InRange(i, Len(results)) THEN rest
             ELSE IF i.t = "float" THEN [raised |-> TRUE, kept |-> << >>]
             ELSE IF rest.raised THEN rest
             ELSE [raised |-> FALSE, kept |-> rest.kept \o << results[i.v] >>]

\* the list comprehension of filter_node over the iterated items: raised
\* when an item cannot be compared or a kept item cannot index the list
RECURSIVE KeepIndices(_, _)
KeepIndices(results, items) ==
    IF items = << >> THEN [raised |-> FALSE, kept |-> << >>]
    ELSE LET i    == Head(items)
             rest == KeepIndices(results, Tail(items))
         IN  IF ~Comparable(i) THEN [raised |-> TRUE, kept |-> << >>]
             ELSE IF ~InRange(i, Len(results)) THEN rest
             ELSE IF i.t = "float" THEN [raised |-> TRUE, kept |-> << >>]
             ELSE IF rest.raised THEN rest
             ELSE [raised |-> FALSE, kept |-> << results[i.v] >> \o rest.kept]

\* the try block of filter_node: json.loads, then the comprehension; any of
\* JSONDecodeError, IndexError, TypeError keeps all results
FilterResults(results, reply) ==
    IF reply.type \in {"malformed", "null", "number"} THEN results
    ELSE LET r == KeepIndices(results, reply.items)
         IN  IF r.raised THEN results ELSE r.kept

\* the dict filter_node returns after asking the model
FilterReturn(results, reply) ==
    LET filtered == FilterResults(results, reply)
    IN  [filtered_results |-> filtered, sources_used |-> Len(filtered)]

\* ---- text: a string is the sequence of its lines, "" is the empty sequence
\* lines that start with three backquotes: a bare fence and a fence with a
\* language tag
FenceLines == {"FENCE", "FENCE_JSON"}
BlankLines == {""}

\* str.strip() on the whole text: leading and trailing blank lines go
RECURSIVE LStrip(_)
LStrip(text) ==
    IF text # << >> /\ Head(text) \in BlankLines THEN LStrip(Tail(text)) ELSE text

RECURSIVE RStrip(_)
RStrip(text) ==
    IF text # << >> /\ text[Len(text)] \in BlankLines
    THEN RStrip(SubSeq(text, 1, Len(text) - 1)) ELSE text

Strip(text) == RStrip(LStrip(text))

\* l.strip().startswith(fence)
IsFenceLine(l) == l \in FenceLines

\* the post-processing of synthesize_node: strip, and when the text starts
\* with a fence drop every line that starts with one, then strip again
StripFences(content) ==
    LET raw_text == Strip(content)
    IN  IF raw_text # << >> /\ IsFenceLine(raw_text[1])
        THEN Strip(SelectSeq(raw_text, LAMBDA l : ~IsFenceLine(l)))
        ELSE raw_text

\* ---- JSON documents the model may write, one per line
NoYear == << >>
Year(y) == << y >>
\* datetime.now().year
CurrentYear == 2026

Finding(conf10, years) == [confidence10 |-> conf10, years |-> years]

MetaAbsent == [type |-> "absent"]
MetaNull   == [type |-> "null"]
MetaList   == [type |-> "array"]
Meta(qt, found, used, rc, ps) ==
    [type |-> "object", query_time_seconds |-> qt, sources_found |-> found,
     sources_used |-> used, retry_count |-> rc, parse_success |-> ps]

\* sources: the year of each Citation of the top-level list
Object(slen, findings, sources, meta) ==
    [type |-> "object", summary_len |-> slen, findings |-> findings,
     sources |-> sources, metadata |-> meta]

\* a JSON value that is no object; mentions: whether the membership test
\* "metadata" in data is true of it (a list item, a substring)
Scalar(type) == [type |-> type, mentions |-> FALSE]
Iterable(type, mentions) == [type |-> type, mentions |-> mentions]

GoodFindings == << Finding(8, << NoYear >>), Finding(10, << Year(1900) >>) >>
GoodSources == << Year(CurrentYear + 1), NoYear >>
GoodMeta == Meta(0, 6, 3, 0, TRUE)

JsonLines ==
    {"DOC_OK", "DOC_RETRY_NEG", "DOC_SHORT", "DOC_NO_FINDINGS", "DOC_CONF_HIGH",
     "DOC_CONF_NEG", "DOC_YEAR_OLD", "DOC_YEAR_FUTURE", "DOC_SOURCE_YEAR_OLD",
     "DOC_FOUND_NEG", "DOC_USED_NEG", "DOC_NO_META", "DOC_META_NULL",
     "DOC_META_LIST", "JSON_ARRAY", "JSON_ARRAY_META", "JSON_STRING",
     "JSON_STRING_META", "JSON_NUMBER", "JSON_NULL"}

JsonValue(line) ==
    CASE line = "DOC_OK"          -> Object(50, GoodFindings, GoodSources, GoodMeta)
      [] line = "DOC_RETRY_NEG"   -> Object(60, GoodFindings, << >>, Meta(-1, 0, 0, -1, FALSE))
      [] line = "DOC_SHORT"       -> Object(49, GoodFindings, GoodSources, GoodMeta)
      [] line = "DOC_NO_FINDINGS" -> Object(50, << >>, GoodSources, GoodMeta)
      [] line = "DOC_CONF_HIGH"   -> Object(50, << Finding(11, << >>) >>, GoodSources, GoodMeta)
      [] line = "DOC_CONF_NEG"    -> Object(50, << Finding(-1, << >>) >>, GoodSources, GoodMeta)
      [] line = "DOC_YEAR_OLD"    -> Object(50, << Finding(5, << Year(1899) >>) >>, GoodSources, GoodMeta)
      [] line = "DOC_YEAR_FUTURE" ->
             Object(50, << Finding(5, << Year(CurrentYear + 2) >>) >>, GoodSources, GoodMeta)
      [] line = "DOC_SOURCE_YEAR_OLD" -> Object(50, GoodFindings, << Year(1899) >>, GoodMeta)
      [] line = "DOC_FOUND_NEG"   -> Object(50, GoodFindings, GoodSources, Meta(0, -1, 3, 0, TRUE))
      [] line = "DOC_USED_NEG"    -> Object(50, GoodFindings, GoodSources, Meta(0, 6, -1, 0, TRUE))
      [] line = "DOC_NO_META"     -> Object(50, GoodFindings, GoodSources, MetaAbsent)
      [] line = "DOC_META_NULL"   -> Object(50, GoodFindings, GoodSources, MetaNull)
      [] line = "DOC_META_LIST"   -> Object(50, GoodFindings, GoodSources, MetaList)
      [] line = "JSON_ARRAY"      -> Iterable("array", FALSE)
      [] line = "JSON_ARRAY_META" -> Iterable("array", TRUE)
      [] line = "JSON_STRING"     -> Iterable("string", FALSE)
      [] line = "JSON_STRING_META" -> Iterable("string", TRUE)
      [] line = "JSON_NUMBER"     -> Scalar("number")
      [] line = "JSON_NULL"       -> Scalar("null")

\* json.loads: whitespace around the one document is skipped, anything else
\* (no document, words, a fence, a second document) is a JSONDecodeError
json_loads(raw) ==
    LET body == SelectSeq(raw, LAMBDA l : l \notin BlankLines)
    IN  IF Len(body) = 1 /\ body[1] \in JsonLines
        THEN [ok |-> TRUE, data |-> JsonValue(body[1])]
        ELSE [ok |-> FALSE, data |-> NoneVal]

\* models.py: the field constraints of Citation, Finding, QueryMetadata and
\* ResearchSummary
validate_year_noUpper(y) == y = NoYear \/ y[1] >= 1900

validate_year(y) == y = NoYear \/ (y[1] >= 1900 /\ y[1] <= CurrentYear + 1)

FindingValid(f) ==
    /\ 0 <= f.confidence10 /\ f.confidence10 <= 10
    /\ \A c \in 1..Len(f.years) : validate_year(f.years[c])

QueryMetadataValid(m) ==
    /\ m.type = "object"
    /\ m.query_time_seconds >= 0
    /\ m.sources_found >= 0
    /\ m.sources_used >= 0
    /\ m.retry_count >= 0

ResearchSummaryValid(data) ==
    /\ data.type = "object"
    /\ data.summary_len >= 50
    /\ Len(data.findings) >= 1
    /\ \A i \in 1..Len(data.findings) : FindingValid(data.findings[i])
    /\ \A c \in 1..Len(data.sources) : validate_year(data.sources[c])
    /\ QueryMetadataValid(data.metadata)

\* summary.model_dump()
model_dump(data) ==
    [type |-> "ResearchSummary", summary_len |-> data.summary_len,
     findings |-> data.findings, sources |-> data.sources, metadata |-> data.metadata]

\* "metadata" in data, for a value the test is defined on
MentionsMetadata(data) ==
    IF data.type = "object" THEN data.metadata.type # "absent" ELSE data.mentions

\* an injection that trusts the metadata the model wrote
InjectMetadata_trusting(data, count, elapsed) ==
    IF data.type \in {"number", "null"} THEN [raised |-> TRUE, data |-> data]
    ELSE IF ~MentionsMetadata(data) THEN [raised |-> FALSE, data |-> data]
    ELSE IF data.type # "object" THEN [raised |-> TRUE, data |-> data]
    ELSE IF data.metadata.type # "object" THEN [raised |-> TRUE, data |-> data]
    ELSE [raised |-> FALSE, data |-> data]

\* the metadata injection of validate_node; raised is the TypeError of the
\* membership test on a value that is not iterable, of indexing a list or a
\* string with "metadata", or of item assignment on a metadata value that
\* is no object
InjectMetadata(data, count, elapsed) ==
    IF data.type \in {"number", "null"} THEN [raised |-> TRUE, data |-> data]
    ELSE IF ~MentionsMetadata(data) THEN [raised |-> FALSE, data |-> data]
    ELSE IF data.type # "object" THEN [raised |-> TRUE, data |-> data]
    ELSE IF data.metadata.type # "object" THEN [raised |-> TRUE, data |-> data]
    ELSE [raised |-> FALSE,
          data |-> [data EXCEPT !.metadata.query_time_seconds = elapsed,
                                !.metadata.retry_count = count,
                                !.metadata.parse_success = TRUE]]

\* the class an exception class derives from
ExceptionBase(cls) ==
    CASE cls = "JSONDecodeError" -> "ValueError"
      [] cls = "ValidationError" -> "ValueError"
      [] cls = "ValueError"      -> "Exception"
      [] cls = "TypeError"       -> "Exception"
      [] cls = "RequestException" -> "Exception"
      [] cls = "GraphRecursionError" -> "Exception"
      [] cls = "Exception"       -> "BaseException"

RECURSIVE IsInstance(_, _)
IsInstance(exc, cls) ==
    \/ exc = cls
    \/ exc # "BaseException" /\ IsInstance(ExceptionBase(exc), cls)

\* a handler that names the JSON error alone
Handlers_jsonOnly == {"JSONDecodeError"}

\* except (json.JSONDecodeError, Exception)
Handlers == {"JSONDecodeError", "Exception"}

Caught(exc) == \E cls \in Handlers : IsInstance(exc, cls)

\* the try block of validate_node: the exception it ends with ("none" when
\* it returns) and the document it validated
TryValidate(raw, count, elapsed) ==
    LET parsed == json_loads(raw)
    IN  IF ~parsed.ok THEN [exc |-> "JSONDecodeError", data |-> NoneVal]
        ELSE LET inj == InjectMetadata(parsed.data, count, elapsed)
             IN  IF inj.raised THEN [exc |-> "TypeError", data |-> NoneVal]
                 ELSE IF ~ResearchSummaryValid(inj.data)
                      THEN [exc |-> "ValidationError", data |-> NoneVal]
                 ELSE [exc |-> "none", data |-> inj.data]

\* a failed validation that does not count
FailedRetryCount_same(count) == count

\* the retry_count a failed validation returns
FailedRetryCount(count) == count + 1

\* a failed validation that leaves the error of the state as it was
Failure_keepsError(count, msg) ==
    [raised |-> FALSE, validated_output |-> NoneVal,
     retry_count |-> FailedRetryCount(count), error |-> error]

\* the dict validate_node returns from its except block
Failure(count, msg) ==
    [raised |-> FALSE, validated_output |-> NoneVal,
     retry_count |-> FailedRetryCount(count), error |-> msg]

\* a validate_node that counts the empty text as a failed attempt
validate_node_countsEmpty(raw, count, elapsed) ==
    IF raw = << >>
    THEN [raised |-> FALSE, validated_output |-> NoneVal,
          retry_count |-> FailedRetryCount(count), error |-> "Empty synthesis"]
    ELSE LET try == TryValidate(raw, count, elapsed)
         IN  IF try.exc = "none"
             THEN [raised |-> FALSE, validated_output |-> model_dump(try.data),
                   retry_count |-> count, error |-> ""]
             ELSE IF Caught(try.exc) THEN Failure(count, try.exc)
             ELSE [raised |-> TRUE, validated_output |-> NoneVal,
                   retry_count |-> count, error |-> try.exc]

\* a validate_node whose success leaves the error of the state as it was
validate_node_keepsError(raw, count, elapsed) ==
    IF raw = << >>
    THEN [raised |-> FALSE, validated_output |-> NoneVal, retry_count |-> count,
          error |-> "Empty synthesis"]
    ELSE LET try == TryValidate(raw, count, elapsed)
         IN  IF try.exc = "none"
             THEN [raised |-> FALSE, validated_output |-> model_dump(try.data),
                   retry_count |-> count, error |-> error]
             ELSE IF Caught(try.exc) THEN Failure(count, try.exc)
             ELSE [raised |-> TRUE, validated_output |-> NoneVal,
                   retry_count |-> count, error |-> try.exc]

\* validate_node: the update it returns (retry_count is the value the
\* state keeps where the returned dict has no such key), or raised when an
\* exception leaves the function
validate_node(raw, count, elapsed) ==
    IF raw = << >>
    THEN [raised |-> FALSE, validated_output |-> NoneVal, retry_count |-> count,
          error |-> "Empty synthesis"]
    ELSE LET try == TryValidate(raw, count, elapsed)
         IN  IF try.exc = "none"
             THEN [raised |-> FALSE, validated_output |-> model_dump(try.data),
                   retry_count |-> count, error |-> ""]
             ELSE IF Caught(try.exc) THEN Failure(count, try.exc)
             ELSE [raised |-> TRUE, validated_output |-> NoneVal,
                   retry_count |-> count, error |-> try.exc]

\* a retry edge that leads back to the entry point
RetryTarget_search == "search"

\* the node the conditional edge maps "retry" to
RetryTarget == "synthesize"

\* the budget test with > in place of >=
should_retry_gt(output, count) ==
    IF output # NoneVal THEN "end"
    ELSE IF count > MAX_VALIDATION_RETRIES THEN "end"
    ELSE RetryTarget

\* a conditional edge that does not look at validated_output
should_retry_blind(output, count) ==
    IF count >= MAX_VALIDATION_RETRIES THEN "end" ELSE RetryTarget

\* should_retry followed by the edge map: "end" -> END, "retry" -> RetryTarget
should_retry(output, count) ==
    IF output # NoneVal THEN "end"
    ELSE IF count >= MAX_VALIDATION_RETRIES THEN "end"
    ELSE RetryTarget

\* ---- the environment: what the model answers the synthesis prompt with
SynthContents ==
    {<< >>, << "PROSE" >>, << "DOC_SHORT" >>, << "DOC_META_NULL" >>, << "DOC_OK" >>,
     << "FENCE_JSON", "DOC_RETRY_NEG", "FENCE" >>}

\* answers fixed in advance for the first synthesis calls of a run: none, or
\* k answers that fail validation followed by one that passes it
BadTexts == {<< "PROSE" >>, << "DOC_SHORT" >>}
GoodText == << "DOC_OK" >>

Scripts ==
    {<< >>} \cup UNION {{bad \o << GoodText >> : bad \in [1..k -> BadTexts]} :
                          k \in 0..MAX_VALIDATION_RETRIES}

Elapsed == 0..MaxElapsed

Nodes == {"search", "filter", "synthesize", "validate"}

\* run_research: initial_state, entry point "search"
Init ==
    /\ pc = "search"
    /\ steps = 0
    /\ query = "q"
    /\ search_results = << >>
    /\ filtered_results = << >>
    /\ synthesis_raw = << >>
    /\ validated_output = NoneVal
    /\ tools_used = {}
    /\ sources_found = 0
    /\ sources_used = 0
    /\ retry_count = 0
    /\ error = ""
    /\ tool_errors = << >>
    /\ llm_script \in Scripts
    /\ llm_content = << >>
    /\ filter_reply = NoReply
    /\ search_calls = 0
    /\ filter_calls = 0
    /\ synth_calls = 0
    /\ llm_synth_calls = 0
    /\ call = NoCall
    /\ queries = << >>
    /\ main = "tracking"

\* one super-step of the graph: the node at pc runs
Tick(node) ==
    /\ pc = node
    /\ steps < RecursionLimit
    /\ steps' = steps + 1
    /\ UNCHANGED << call, queries, main >>

search_node ==
    /\ Tick("search")
    /\ \E ddg \in ProviderOutcomes, wiki \in ProviderOutcomes, arx \in ProviderOutcomes :
         LET results == run_all_searches(ddg, wiki, arx)
         IN  /\ search_results' = results
             /\ tools_used' = SourcesOf(results)
             /\ sources_found' = Len(results)
             /\ tool_errors' = ToolErrors(ddg, wiki, arx)
    /\ pc' = "filter"
    /\ search_calls' = search_calls + 1
    /\ UNCHANGED << query, filtered_results, synthesis_raw, validated_output,
                    sources_used, retry_count, error, llm_script, llm_content,
                    filter_reply, filter_calls, synth_calls, llm_synth_calls >>

filter_node ==
    /\ Tick("filter")
    /\ IF search_results = << >>
       THEN /\ filtered_results' = << >>
            /\ sources_used' = 0
            /\ filter_reply' = filter_reply
       ELSE \E reply \in FilterReplies(Len(search_results)) :
              LET update == FilterReturn(search_results, reply)
              IN  /\ filtered_results' = update.filtered_results
                  /\ sources_used' = update.sources_used
                  /\ filter_reply' = ReplyKind(reply)
    /\ pc' = "synthesize"
    /\ filter_calls' = filter_calls + 1
    /\ UNCHANGED << query, search_results, synthesis_raw, validated_output,
                    tools_used, sources_found, retry_count, error, tool_errors,
                    llm_script, llm_content, search_calls, synth_calls,
                    llm_synth_calls >>

\* the answers the model can give to synthesis prompt number n
Answers(n) == IF n <= Len(llm_script) THEN {llm_script[n]} ELSE SynthContents

\* a synthesize_node that sends its prompt whatever the filter kept
synthesize_node_alwaysAsks ==
    /\ Tick("synthesize")
    /\ \E content \in Answers(llm_synth_calls + 1) :
          /\ synthesis_raw' = StripFences(content)
          /\ llm_content' = content
    /\ error' = error
    /\ llm_synth_calls' = llm_synth_calls + 1
    /\ pc' = "validate"
    /\ synth_calls' = synth_calls + 1
    /\ UNCHANGED << query, search_results, filtered_results, validated_output,
                    tools_used, sources_found, sources_used, retry_count,
                    tool_errors, llm_script, filter_reply, search_calls,
                    filter_calls >>

synthesize_node ==
    /\ Tick("synthesize")
    /\ IF filtered_results = << >>
       THEN /\ synthesis_raw' = << >>
            /\ error' = "No search results available"
            /\ llm_synth_calls' = llm_synth_calls
            /\ llm_content' = llm_content
       ELSE /\ \E content \in Answers(llm_synth_calls + 1) :
                  /\ synthesis_raw' = StripFences(content)
                  /\ llm_content' = content
            /\ error' = error
            /\ llm_synth_calls' = llm_synth_calls + 1
    /\ pc' = "validate"
    /\ synth_calls' = synth_calls + 1
    /\ UNCHANGED << query, search_results, filtered_results, validated_output,
                    tools_used, sources_found, sources_used, retry_count,
                    tool_errors, llm_script, filter_reply, search_calls,
                    filter_calls >>

validate_step ==
    /\ Tick("validate")
    /\ \E elapsed \in Elapsed :
         LET update == validate_node(synthesis_raw, retry_count, elapsed)
         IN  IF update.raised
             THEN /\ pc' = "raised"
                  /\ UNCHANGED << validated_output, retry_count, error >>
             ELSE /\ validated_output' = update.validated_output
                  /\ retry_count' = update.retry_count
                  /\ error' = update.error
                  /\ pc' = should_retry(update.validated_output, update.retry_count)
    /\ UNCHANGED << query, search_results, filtered_results, synthesis_raw,
                    tools_used, sources_found, sources_used, tool_errors,
                    llm_script, llm_content, filter_reply, search_calls,
                    filter_calls, synth_calls, llm_synth_calls >>

\* graph.invoke: a node is due but the step limit is reached; the call
\* raises and run_research returns nothing
GraphRecursionError ==
    /\ pc \in Nodes
    /\ steps >= RecursionLimit
    /\ pc' = "raised"
    /\ UNCHANGED << steps, state, history >>

Next ==
    \/ search_node
    \/ filter_node
    \/ synthesize_node
    \/ validate_step
    \/ GraphRecursionError

Spec == Init /\ [][Next]_vars

\* graph.invoke runs the due node until the run is over
FairSpec == Spec /\ WF_vars(Next)

\* ---- validate_node on its own: the states synthesize_node can leave, for
\* any text the model may answer with
Padded(text) == {text, << "" >> \o text \o << "" >>}
Fenced(text) == {<< "FENCE_JSON" >> \o text \o << "FENCE" >>}

ValidatorTexts ==
    {<< >>, << "" >>, << "PROSE" >>, << "PROSE", "DOC_OK" >>, << "FENCE", "FENCE" >>}
      \cup UNION {Padded(<< line >>) \cup Fenced(<< line >>) : line \in JsonLines}

\* the state when validate is due for the first time or after one failure
InitV ==
    /\ pc = "validate"
    /\ retry_count \in 0..(MAX_VALIDATION_RETRIES - 1)
    /\ synth_calls = retry_count + 1
    /\ steps = 2 + synth_calls + retry_count
    /\ query = "q"
    /\ \E hits \in 0..MaxHits :
         /\ search_results = search_duckduckgo(hits)
         /\ filtered_results = search_results
    /\ sources_found = Len(search_results)
    /\ sources_used = Len(filtered_results)
    /\ tools_used = SourcesOf(search_results)
    /\ tool_errors = << "wikipedia", "arxiv" >>
    /\ llm_content \in ValidatorTexts
    /\ synthesis_raw = StripFences(llm_content)
    /\ validated_output = NoneVal
    /\ error = IF retry_count = 0 THEN "" ELSE "JSONDecodeError"
    /\ llm_script = << >>
    /\ filter_reply = "array of int"
    /\ search_calls = 1
    /\ filter_calls = 1
    /\ llm_synth_calls = synth_calls
    /\ call = NoCall
    /\ queries = << >>
    /\ main = "tracking"

NextV == validate_step

SpecValidate == InitV /\ [][NextV]_vars

\* ---- the functions of tools.py called on their own
\* what one execution of a function body ends with
Raise(exc) == [exc |-> exc, value |-> NoneVal]
Return(value) == [exc |-> "none", value |-> value]

\* the body of a search function: it logs an exception of the library and
\* raises it again
SearchBody(outcome) == outcome

\* the body of scrape_url: except Exception ... return None
ScrapeBody(outcome) ==
    IF outcome.exc # "none" /\ IsInstance(outcome.exc, "Exception")
    THEN Return(NoneVal)
    ELSE outcome

\* @retry(stop=stop_after_attempt(ceiling), retry=retry_if_exception_type(
\* retry_on), reraise=True): the call from execution i of the body on
RECURSIVE Retrying(_, _, _, _)
Retrying(outcomes, ceiling, retry_on, i) ==
    LET o == outcomes[i]
    IN  IF o.exc = "none" THEN [attempts |-> i, exc |-> "none", value |-> o.value]
        ELSE IF ~IsInstance(o.exc, retry_on)
             THEN [attempts |-> i, exc |-> o.exc, value |-> NoneVal]
        ELSE IF i >= ceiling THEN [attempts |-> i, exc |-> o.exc, value |-> NoneVal]
        ELSE Retrying(outcomes, ceiling, retry_on, i + 1)

\* a search library that fails k times in a row and then answers
SearchScripts ==
    {[i \in 1..k |-> Raise("Exception")] \o << Return(h) >> :
        k \in 0..(SearchAttempts + 1), h \in 0..MaxHits}

\* what requests.get and the parser do on consecutive executions
ScrapeOutcomes == {Return("page"), Raise("RequestException"), Raise("TypeError")}
ScrapeScripts == [1..(ScrapeAttempts + 1) -> ScrapeOutcomes]

\* a decorated search function on a script of its library
RetriedSearch(script) ==
    Retrying([i \in DOMAIN script |-> SearchBody(script[i])], SearchAttempts, "Exception", 1)

\* the decorated scrape_url
scrape_url(script) ==
    Retrying([i \in DOMAIN script |-> ScrapeBody(script[i])], ScrapeAttempts,
             "RequestException", 1)

\* what run_all_searches sees of a provider call
ProviderOutcome(r) ==
    [failed |-> r.exc # "none", hits |-> IF r.exc # "none" THEN 0 ELSE r.value]

\* the state of the pipeline, which a call of tools.py leaves alone; one
\* call is followed from the start of the program
pipeline == << pc, steps, state, tool_errors, llm_script, llm_content, filter_reply,
               search_calls, filter_calls, synth_calls, llm_synth_calls, queries, main >>

InitT == Init /\ llm_script = << >>

call_search(fn) ==
    /\ call = NoCall
    /\ \E script \in SearchScripts :
        LET r == RetriedSearch(script)
        IN  /\ call' = [fn |-> fn, script |-> script, attempts |-> r.attempts,
                        exception |-> r.exc,
                        results |-> IF r.exc # "none" THEN << >>
                                    ELSE IF fn = "search_duckduckgo" THEN search_duckduckgo(r.value)
                                    ELSE IF fn = "search_wikipedia" THEN search_wikipedia(r.value)
                                    ELSE search_arxiv(r.value)]
            /\ UNCHANGED pipeline

call_search_duckduckgo == call_search("search_duckduckgo")
call_search_wikipedia == call_search("search_wikipedia")
call_search_arxiv == call_search("search_arxiv")

call_scrape_url ==
    /\ call = NoCall
    /\ \E script \in ScrapeScripts :
        LET r == scrape_url(script)
        IN  /\ call' = [fn |-> "scrape_url", script |-> script, attempts |-> r.attempts,
                        exception |-> r.exc, returned |-> r.value]
            /\ UNCHANGED pipeline

\* except Exception around each provider call of run_all_searches
Isolated(r) == r.exc = "none" \/ IsInstance(r.exc, "Exception")

call_run_all_searches ==
    /\ call = NoCall
    /\ \E s1 \in SearchScripts, s2 \in SearchScripts, s3 \in SearchScripts :
        LET r1 == RetriedSearch(s1)
            r2 == RetriedSearch(s2)
            r3 == RetriedSearch(s3)
            ddg == ProviderOutcome(r1)
            wiki == ProviderOutcome(r2)
            arx == ProviderOutcome(r3)
        IN  /\ call' = [fn |-> "run_all_searches",
                        outcomes |-> << r1, r2, r3 >>,
                        raised |-> ~(Isolated(r1) /\ Isolated(r2) /\ Isolated(r3)),
                        results |-> run_all_searches(ddg, wiki, arx),
                        tool_errors |-> ToolErrors(ddg, wiki, arx)]
            /\ UNCHANGED pipeline

NextT ==
    \/ call_search_duckduckgo
    \/ call_search_wikipedia
    \/ call_search_arxiv
    \/ call_scrape_url
    \/ call_run_all_searches

SpecTools == InitT /\ [][NextT]_vars

\* ---- filter_node called on its own, on any list the search stage can
\* return and any answer of the model
SearchOutputs ==
    {run_all_searches(ddg, wiki, arx) :
        ddg \in ProviderOutcomes, wiki \in ProviderOutcomes, arx \in ProviderOutcomes}

call_filter_node ==
    /\ call = NoCall
    /\ \E results \in SearchOutputs :
         IF results = << >>
         THEN call' = [fn |-> "filter_node", results |-> results, reply |-> NoReply,
                       filtered_results |-> << >>, sources_used |-> 0]
         ELSE \E reply \in FilterReplies(Len(results)) :
                LET update == FilterReturn(results, reply)
                IN  call' = [fn |-> "filter_node", results |-> results, reply |-> reply,
                             filtered_results |-> update.filtered_results,
                             sources_used |-> update.sources_used]
    /\ UNCHANGED pipeline

NextF == call_filter_node

SpecFilter == InitT /\ [][NextF]_vars

\* ---- the post-processing of synthesize_node applied on its own to any
\* answer of up to MaxLines lines
AnswerLines == BlankLines \cup FenceLines \cup {"PROSE", "DOC_OK"}

AnswerTexts == UNION {[1..n -> AnswerLines] : n \in 0..MaxLines}

call_strip_fences ==
    /\ call = NoCall
    /\ \E content \in AnswerTexts :
         call' = [fn |-> "strip_fences", content |-> content,
                  synthesis_raw |-> StripFences(content)]
    /\ UNCHANGED pipeline

NextS == call_strip_fences

SpecFence == InitT /\ [][NextS]_vars

\* ---- main.py and metrics.py: one query of the loop of main, tracked
\* QueryMetrics(query=query): the fields main and track_query write, at
\* their defaults
QueryMetrics(q) ==
    [query |-> q, sources_found |-> 0, sources_used |-> 0, tools_used |-> {},
     parse_success |-> FALSE, retry_count |-> 0, error |-> ""]

\* the block of the with statement of main: run_research, then the fields
\* copied from its result; exc is what the block raised
TrackedBlock(metrics) ==
    IF pc = "raised" THEN [exc |-> "GraphRecursionError", metrics |-> metrics]
    ELSE [exc |-> "none",
          metrics |-> [metrics EXCEPT !.sources_found = sources_found,
                                      !.sources_used = sources_used,
                                      !.tools_used = tools_used,
                                      !.retry_count = retry_count,
                                      !.parse_success = (validated_output # NoneVal)]]

\* except Exception as e: metrics.error = str(e); raise
TrackExcept(block) ==
    IF block.exc # "none" /\ IsInstance(block.exc, "Exception")
    THEN [block.metrics EXCEPT !.error = block.exc]
    ELSE block.metrics

\* a track_query that appends the record after the block instead of in a
\* finally clause
track_query_noFinally ==
    /\ main = "tracking"
    /\ pc \in {"end", "raised"}
    /\ LET block == TrackedBlock(QueryMetrics(query))
       IN  /\ queries' = IF block.exc = "none" THEN Append(queries, TrackExcept(block))
                          ELSE queries
           /\ main' = IF block.exc = "none" THEN "display" ELSE "crashed"
    /\ UNCHANGED << pc, steps, state, tool_errors, llm_script, llm_content, filter_reply,
                    search_calls, filter_calls, synth_calls, llm_synth_calls, call >>

\* track_query around the block of main, once run_research is over: the
\* finally clause appends the record; an exception leaves main, which
\* does not catch it
track_query ==
    /\ main = "tracking"
    /\ pc \in {"end", "raised"}
    /\ LET block == TrackedBlock(QueryMetrics(query))
       IN  /\ queries' = Append(queries, TrackExcept(block))
           /\ main' = IF block.exc = "none" THEN "display" ELSE "crashed"
    /\ UNCHANGED << pc, steps, state, tool_errors, llm_script, llm_content, filter_reply,
                    search_calls, filter_calls, synth_calls, llm_synth_calls, call >>

NextM == Next \/ track_query

SpecMain == Init /\ [][NextM]_vars

\* =================================================================== claims
Over == pc \in {"end", "raised"}

\* C1: every run ends by returning a result, either a non-null
\* validated_output or a failure record with the retries used up; the
\* validate -> synthesize loop does not go on until the graph runtime stops it.
C1_RunReturns ==
    Over => /\ pc = "end"
            /\ (validated_output # NoneVal \/ retry_count >= MAX_VALIDATION_RETRIES)

\* C2: synthesize_node is executed at most MAX_VALIDATION_RETRIES + 1 = 3
\* times in a run.
C2_AtMostThreeSyntheses == synth_calls <= MAX_VALIDATION_RETRIES + 1

\* C3: when the model answers the synthesis prompt with k texts that fail
\* validation (k <= MAX_VALIDATION_RETRIES) and then with a schema-valid
\* one, the run ends with a validated_output whose metadata.retry_count is k
\* and whose metadata.parse_success is true.
C3_RetryThenSuccess ==
    \A k \in 0..MAX_VALIDATION_RETRIES :
        (Over /\ filtered_results # << >> /\ Len(llm_script) = k + 1)
            => /\ pc = "end"
               /\ validated_output # NoneVal
               /\ validated_output.metadata.retry_count = k
               /\ validated_output.metadata.parse_success = TRUE

\* C4: when every provider fails, the search returns no result and the run
\* ends with validated_output = null and the error of the empty-input path
\* of the synthesizer.
C4_NoResultsError ==
    (search_calls = 1 /\ Len(tool_errors) = Len(Providers))
        => /\ search_results = << >>
           /\ Over => /\ pc = "end"
                      /\ validated_output = NoneVal
                      /\ error = "No search results available"

\* C5: retry_count stays within 0..MAX_VALIDATION_RETRIES and no step
\* decreases it.
C5_RetryCountBounded ==
    /\ [](retry_count \in 0..MAX_VALIDATION_RETRIES)
    /\ [][retry_count' >= retry_count]_vars

C5_Witness ==
    pc = "end" /\ validated_output = NoneVal /\ retry_count = MAX_VALIDATION_RETRIES

\* C6: sources_used <= sources_found in every state.
C6_UsedAtMostFound == sources_used <= sources_found

\* C7: when the answer to the filter prompt is not a JSON array of integers,
\* filter_node keeps the search results as they are and counts them all.
C7_FilterFallback ==
    (filter_calls = 1 /\ search_results # << >> /\ filter_reply # "array of int")
        => /\ filtered_results = search_results
           /\ sources_used = Len(search_results)

\* C8: a validate step is followed by the end of the run when
\* validated_output is non-null (DONE) or when retry_count has reached
\* MAX_VALIDATION_RETRIES (FAILED), and by synthesize otherwise.
C8_ValidateSuccessor ==
    [][(pc = "validate" /\ steps' # steps) =>
          pc' = IF validated_output' # NoneVal THEN "end"
                ELSE IF retry_count' >= MAX_VALIDATION_RETRIES THEN "end"
                ELSE "synthesize"]_vars

C8_Witness ==
    pc = "synthesize" /\ synth_calls = 1 /\ retry_count = 1 /\ validated_output = NoneVal

\* the message of the exception validate_node catches for a text
C9_FailureMessage(raw) ==
    LET parsed == json_loads(raw)
    IN  IF ~parsed.ok THEN "JSONDecodeError"
        ELSE IF InjectMetadata(parsed.data, 0, 0).raised THEN "TypeError"
        ELSE "ValidationError"

\* C9: a run that returns without a validated output after failed
\* validations returns the error of the last failure and the last synthesis
\* text, and nothing is synthesized or validated afterwards.
C9_FailedRunKeepsLast ==
    /\ []((pc = "end" /\ validated_output = NoneVal)
            => /\ synthesis_raw = StripFences(llm_content)
               /\ error = C9_FailureMessage(synthesis_raw))
    /\ [][(pc = "end") => (pc' = "end" /\ steps' = steps /\ synth_calls' = synth_calls)]_vars

C9_Witness ==
    /\ pc = "end" /\ validated_output = NoneVal
    /\ synthesis_raw = << "PROSE" >> /\ error = "JSONDecodeError"
    /\ synth_calls = 3

\* C10: search_node and filter_node run once per run, and no synthesize or
\* validate step changes query, search_results, filtered_results,
\* sources_found, sources_used or tools_used.
C10_RetryRepeatsOnlySynthesis ==
    /\ [](search_calls <= 1 /\ filter_calls <= 1)
    /\ [](Over => (search_calls = 1 /\ filter_calls = 1))
    /\ [][(pc \in {"synthesize", "validate"}) =>
            UNCHANGED << query, search_results, filtered_results, sources_found,
                         sources_used, tools_used, search_calls, filter_calls >> ]_vars

C10_Witness ==
    pc = "validate" /\ synth_calls = 2 /\ search_calls = 1 /\ filter_calls = 1

\* C11: validate_node never raises: for every text, the empty one, text
\* that is not JSON, JSON that is no object, and an object that violates
\* the schema, it returns an update and the run goes on along the edge.
C11_ValidateNeverRaises ==
    /\ pc # "raised"
    /\ pc # "validate" => \/ validated_output # NoneVal /\ error = ""
                          \/ validated_output = NoneVal /\ error # ""

C11_Witness ==
    /\ pc = "synthesize"
    /\ synthesis_raw = << "JSON_NULL" >>
    /\ validated_output = NoneVal
    /\ error = "TypeError"

\* the text fails JSON parsing, or what it parses to fails the schema
C12_Fails(raw, count) ==
    LET parsed == json_loads(raw)
    IN  \/ ~parsed.ok
        \/ LET inj == InjectMetadata(parsed.data, count, 0)
           IN  inj.raised \/ ~ResearchSummaryValid(inj.data)

\* C12: on non-empty text that fails JSON parsing or schema validation,
\* validate_node returns validated_output = null, the incoming retry_count
\* plus exactly 1, and the description of the failure as error; a parse
\* failure and a schema failure are treated alike.
C12_FailureCounts ==
    [][(pc = "validate" /\ synthesis_raw # << >> /\ C12_Fails(synthesis_raw, retry_count))
         => /\ validated_output' = NoneVal
            /\ retry_count' = retry_count + 1
            /\ error' = C9_FailureMessage(synthesis_raw)
            /\ pc' # "raised"]_vars

C12_Witness ==
    /\ pc = "end"
    /\ synthesis_raw = << "DOC_SHORT" >>
    /\ validated_output = NoneVal
    /\ retry_count = MAX_VALIDATION_RETRIES
    /\ error = "ValidationError"

\* C13: validate_node leaves retry_count unchanged in two cases: on the
\* empty text, where it returns validated_output = null and the error
\* "Empty synthesis", and on success, where it returns the validated
\* summary and the empty error.
C13_RetryCountKept ==
    [][(pc = "validate")
         => /\ synthesis_raw = << >>
                 => /\ validated_output' = NoneVal
                    /\ error' = "Empty synthesis"
                    /\ retry_count' = retry_count
            /\ validated_output' # NoneVal
                 => /\ ~C12_Fails(synthesis_raw, retry_count)
                    /\ error' = ""
                    /\ retry_count' = retry_count]_vars

C13_Witness ==
    /\ pc = "synthesize"
    /\ synthesis_raw = << >>
    /\ llm_content = << "FENCE", "FENCE" >>
    /\ validated_output = NoneVal
    /\ error = "Empty synthesis"
    /\ retry_count = 1

\* a citation year, where there is one, lies in 1900 .. current year + 1
C14_YearsInRange(years) ==
    \A c \in 1..Len(years) :
        Len(years[c]) = 0 \/ years[c][1] \in 1900..(CurrentYear + 1)

\* C14: validated_output is always null or a fully schema-valid
\* ResearchSummary: summary of 50 characters or more, at least one finding,
\* every confidence within 0 .. 1, every citation year that is present
\* within 1900 .. current year + 1, and no negative query_time_seconds,
\* sources_found, sources_used or retry_count in the metadata.
C14_OutputSchemaValid ==
    validated_output # NoneVal =>
        /\ validated_output.type = "ResearchSummary"
        /\ validated_output.summary_len >= 50
        /\ Len(validated_output.findings) >= 1
        /\ \A i \in 1..Len(validated_output.findings) :
              /\ validated_output.findings[i].confidence10 \in 0..10
              /\ C14_YearsInRange(validated_output.findings[i].years)
        /\ C14_YearsInRange(validated_output.sources)
        /\ validated_output.metadata.type = "object"
        /\ validated_output.metadata.query_time_seconds >= 0
        /\ validated_output.metadata.sources_found >= 0
        /\ validated_output.metadata.sources_used >= 0
        /\ validated_output.metadata.retry_count >= 0

C14_Witness ==
    /\ pc = "end"
    /\ validated_output # NoneVal
    /\ validated_output.summary_len = 50
    /\ validated_output.sources = << Year(CurrentYear + 1), NoYear >>
    /\ validated_output.findings[2].confidence10 = 10

\* the text parses to an object with a metadata object, and nothing but
\* query_time_seconds, retry_count and parse_success may be wrong with it
C20_ValidApartFromInjected(raw) ==
    LET parsed == json_loads(raw)
    IN  /\ parsed.ok
        /\ parsed.data.type = "object"
        /\ parsed.data.metadata.type = "object"
        /\ ResearchSummaryValid([parsed.data EXCEPT !.metadata.query_time_seconds = 0,
                                                    !.metadata.retry_count = 0,
                                                    !.metadata.parse_success = TRUE])

C17_MetadataCounts ==
    (pc = "end" /\ validated_output # NoneVal)
        => /\ validated_output.metadata.sources_found = Len(search_results)
           /\ validated_output.metadata.sources_used = Len(filtered_results)

\* the providers whose call failed after its retries
C15_Failed == {p \in 1..Len(Providers) : call.outcomes[p].exc # "none"}

\* the results a provider that did not fail returned, counted from the
\* answer of its library (duckduckgo returns one placeholder for no hits)
C15_Count(p) ==
    IF p \in C15_Failed THEN 0
    ELSE IF Providers[p] = "duckduckgo" /\ call.outcomes[p].value = 0 THEN 1
    ELSE call.outcomes[p].value

\* C15: whichever providers fail after their retries, run_all_searches does
\* not raise and returns the results of the other providers, concatenated
\* in the order duckduckgo, wikipedia, arxiv; one failed provider leaves
\* exactly one entry in tool_errors.
C15_FailureIsolation ==
    call.fn = "run_all_searches" =>
        /\ ~call.raised
        /\ \A p \in 1..Len(Providers) :
              Len(SelectSeq(call.results, LAMBDA r : r.source = Providers[p])) = C15_Count(p)
        /\ Len(call.results) = C15_Count(1) + C15_Count(2) + C15_Count(3)
        /\ \A i, j \in 1..Len(call.results) :
              i < j => \E p, q \in 1..Len(Providers) :
                          /\ p <= q
                          /\ call.results[i].source = Providers[p]
                          /\ call.results[j].source = Providers[q]
        /\ Len(call.tool_errors) = Cardinality(C15_Failed)
        /\ Cardinality(C15_Failed) = 1
              => call.tool_errors = << Providers[CHOOSE p \in C15_Failed : TRUE] >>

C15_Witness ==
    /\ call.fn = "run_all_searches"
    /\ call.outcomes[1].exc = "none" /\ call.outcomes[1].attempts = SearchAttempts
    /\ call.outcomes[2].exc = "Exception" /\ call.outcomes[2].attempts = SearchAttempts
    /\ call.outcomes[3].exc = "none" /\ call.outcomes[3].value = MaxHits
    /\ call.tool_errors = << "wikipedia" >>
    /\ Len(call.results) = 2 * MaxHits

\* the library fails on each of the first n executions
C16_KeepsFailing(n, cls) == \A i \in 1..n : call.script[i].exc = cls

\* C16: a provider call that keeps failing is attempted up to its ceiling,
\* 3 attempts for search_duckduckgo, search_wikipedia and search_arxiv and
\* 2 for scrape_url when the HTTP request fails, and never more often.
C16_BoundedRetry ==
    /\ call.fn \in {"search_duckduckgo", "search_wikipedia", "search_arxiv"}
         => /\ call.attempts <= SearchAttempts
            /\ C16_KeepsFailing(SearchAttempts, "Exception")
                 => (call.attempts = SearchAttempts /\ call.exception = "Exception")
    /\ call.fn = "scrape_url"
         => /\ call.attempts <= ScrapeAttempts
            /\ C16_KeepsFailing(ScrapeAttempts, "RequestException")
                 => call.attempts = ScrapeAttempts

\* C18: the empty-input paths make no call of the language model:
\* filter_node on an empty search_results returns filtered_results = []
\* and sources_used = 0, synthesize_node on an empty filtered_results
\* returns synthesis_raw = "" and an error, and neither sends a prompt.
C18_NoModelCallOnEmpty ==
    [][/\ (pc = "filter" /\ search_results = << >> /\ steps' # steps)
            => /\ filtered_results' = << >>
               /\ sources_used' = 0
               /\ filter_reply' = NoReply
               /\ llm_synth_calls' = llm_synth_calls
       /\ (pc = "synthesize" /\ filtered_results = << >> /\ steps' # steps)
            => /\ synthesis_raw' = << >>
               /\ error' = "No search results available"
               /\ llm_synth_calls' = llm_synth_calls
               /\ llm_content' = llm_content
               /\ filter_reply' = filter_reply]_vars

C18_Witness ==
    /\ pc = "validate"
    /\ search_results = << >>
    /\ filtered_results = << >>
    /\ filter_reply = NoReply
    /\ synth_calls = 2
    /\ llm_synth_calls = 0
    /\ llm_content = << >>
    /\ error = "No search results available"

\* the indices of an answer that lie within 1 .. n, in the order listed
C21_InRange(reply, n) == SelectSeq(reply.items, LAMBDA i : i.v \in 1..n)

\* C21: on an answer that is a JSON array of integers filter_node does not
\* fall back: indices outside 1 .. len(results) are dropped, the kept
\* results stand in the order the model listed their indices, and
\* sources_used is the length of the kept list.
C21_FilterKeepsListed ==
    (call.fn = "filter_node" /\ call.results # << >> /\ IsIntArray(call.reply))
        => LET listed == C21_InRange(call.reply, Len(call.results))
           IN  /\ Len(call.filtered_results) = Len(listed)
               /\ \A k \in 1..Len(listed) :
                     call.filtered_results[k] = call.results[listed[k].v]
               /\ call.sources_used = Len(listed)

C21_Witness ==
    /\ call.fn = "filter_node"
    /\ Len(call.results) = 2
    /\ call.reply.type = "array"
    /\ call.reply.items = << Item("int", 2), Item("int", 1) >>
    /\ call.filtered_results = << call.results[2], call.results[1] >>
    /\ call.sources_used = 2

\* C22: an answer that, once trimmed, has an opening fence as its first
\* line and a closing fence as its last comes back as the lines between
\* the two, none of them removed; an answer that does not start with a
\* fence comes back trimmed and otherwise unchanged.
C22_FencesStripped ==
    call.fn = "strip_fences" =>
        LET text == Strip(call.content)
        IN  /\ (Len(text) >= 2 /\ IsFenceLine(text[1]) /\ IsFenceLine(text[Len(text)]))
                 => call.synthesis_raw = Strip(SubSeq(text, 2, Len(text) - 1))
            /\ (text = << >> \/ ~IsFenceLine(text[1]))
                 => call.synthesis_raw = text

\* C23: a non-null validated_output comes with the empty error, also after
\* failed attempts that recorded one, the run is over with it, and it is
\* never overwritten or reset to null afterwards.
C23_SuccessClearsError ==
    /\ [](validated_output # NoneVal => (error = "" /\ pc = "end"))
    /\ [][validated_output # NoneVal => validated_output' = validated_output]_vars

C23_Witness ==
    /\ pc = "end"
    /\ validated_output # NoneVal
    /\ retry_count = 1
    /\ synth_calls = 2
    /\ error = ""

\* the provider raised after its retries in the search of this run
C24_Failed(provider) == \E i \in 1..Len(tool_errors) : tool_errors[i] = provider

\* C24: when the DuckDuckGo call succeeds the search returns a non-empty
\* list that starts with its results, a placeholder where it had no hits,
\* and sources_found counts them; search_results is empty after the search
\* only when the DuckDuckGo call failed.
C24_DuckDuckGoNeverEmpty ==
    search_calls = 1 =>
        /\ ~C24_Failed("duckduckgo")
              => /\ search_results # << >>
                 /\ search_results[1].source = "duckduckgo"
                 /\ sources_found = Len(search_results)
                 /\ sources_found >= 1
        /\ search_results = << >> => C24_Failed("duckduckgo")

C24_Witness ==
    /\ pc = "filter"
    /\ tool_errors = << >>
    /\ search_results = << Hit("duckduckgo", 0) >>
    /\ sources_found = 1

\* the provider has at least one result in the list
C25_Contributed(provider, results) ==
    \E i \in 1..Len(results) : results[i].source = provider

C26_OneRecordPerQuery ==
    /\ [](main = "tracking" => queries = << >>)
    /\ [](main # "tracking" => (Len(queries) = 1 /\ queries[1].query = query))
    /\ []((main # "tracking" /\ pc = "raised")
            => /\ main = "crashed"
               /\ queries[1].error = "GraphRecursionError"
               /\ queries[1].parse_success = FALSE)
    /\ []((main # "tracking" /\ pc = "end")
            => /\ main = "display"
               /\ queries[1].parse_success <=> validated_output # NoneVal)
    /\ [][(main # "tracking") => UNCHANGED << queries, main >> ]_vars

C26_Witness ==
    /\ main = "crashed"
    /\ pc = "raised"
    /\ Len(queries) = 1
    /\ queries[1].error = "GraphRecursionError"
    /\ queries[1].parse_success = FALSE
====
